---- MODULE Spec2Model ----
(***************************************************************************)
(* A model of the neo-go-sdk JSON-RPC client: the Client struct, its       *)
(* constructors, the one-request operations built on executeRequest, and   *)
(* the sequential scan of SelectBestNode.                                  *)
(*                                                                         *)
(* The node and the network are the environment.  What they do to one      *)
(* request is a record `net`:                                              *)
(*    build     - request.NewBody... and http.NewRequest succeeded         *)
(*    transport - "ok", "dial_fail" (client.Do fails) or "read_fail"       *)
(*                (ioutil.ReadAll fails)                                   *)
(*    status    - the HTTP status code                                     *)
(*    body      - the response body                                        *)
(* A Go error is the sequence of the pieces of its text; the nil error is  *)
(* the empty sequence.                                                     *)
(*                                                                         *)
(* Modelled operations: GetBestBlockHash, GetBlockCount, GetBlockHash,     *)
(* GetConnectionCount, GetUnconfirmedTransactions, GetNewAddress,          *)
(* ValidateAddress, GetBalance.  The operations on models.Block,           *)
(* models.Transaction and models.Vout (SendToAddress among them) and       *)
(* GetStorage go through the same executeRequest with the same             *)
(* "if err != nil" return and are not repeated; Ping makes no JSON-RPC     *)
(* request.                                                                *)
(***************************************************************************)
EXTENDS Integers, Sequences, FiniteSets, TLC

\* Longest list of node URIs handed to NewClientUsingMultipleNodes.
MaxNodes == 3
\* Block counts, connection counts: 0 .. MaxCount.
MaxCount == 2
\* SelectBestNode calls made by the user on one client.
MaxCalls == 2

URIs == {"http://n1", "http://n2"}

Addresses == {"AK2nJJpJr6o664CWJKi1QRXjqeic2zRp8y", "AQVh2pG732YvtNaxEGkQUei3YA4cvo7d2i"}

AssetIDs == {"c56f33fc6ecfcd0c225c4ab356fee59390af8560be0e930faebe74a6daff7c9b"}

NoError == << >>

(***************************************************************************)
(* JSON values.  A scalar is a record [t, i, s, b]; t is the JSON type.    *)
(***************************************************************************)
JAbsent == [t |-> "absent", i |-> 0, s |-> "", b |-> FALSE]
JNull == [t |-> "null", i |-> 0, s |-> "", b |-> FALSE]
JInt(n) == [t |-> "int", i |-> n, s |-> "", b |-> FALSE]
JStr(x) == [t |-> "str", i |-> 0, s |-> x, b |-> FALSE]
JBool(x) == [t |-> "bool", i |-> 0, s |-> "", b |-> x]

\* The "result" member: a scalar, an array of strings (l), or an object
\* with the members "address", "isvalid", "balance" and "confirmed", written
\* in this order (JAbsent: no such member).
JResult(v, list, addr, valid, balance, confirmed) ==
    [t |-> v.t, i |-> v.i, s |-> v.s, b |-> v.b, l |-> list,
     address |-> addr, isvalid |-> valid, balance |-> balance,
     confirmed |-> confirmed]
JScalarResult(v) == JResult(v, << >>, JAbsent, JAbsent, JAbsent, JAbsent)
JArrayResult(list) ==
    JResult([JAbsent EXCEPT !.t = "arr"], list, JAbsent, JAbsent, JAbsent, JAbsent)
JObjectResult(addr, valid) ==
    JResult([JAbsent EXCEPT !.t = "obj"], << >>, addr, valid, JAbsent, JAbsent)
JBalanceResult(balance, confirmed) ==
    JResult([JAbsent EXCEPT !.t = "obj"], << >>, JAbsent, JAbsent, balance, confirmed)

\* The "error" member: absent, a string, or an object with "code" and
\* "message"; members is the order the two are written in.
JNoEnvelope ==
    [t |-> "absent", members |-> <<"code", "message">>, code |-> JAbsent,
     message |-> JAbsent]
JStringEnvelope ==
    [t |-> "str", members |-> <<"code", "message">>, code |-> JAbsent,
     message |-> JAbsent]
JEnvelope(members, c, m) == [t |-> "obj", members |-> members, code |-> c, message |-> m]

\* A response body: not JSON at all, or an object with id, result and error;
\* members is the order the three are written in.
JBody(members, id, result, envelope) ==
    [json |-> TRUE, members |-> members, id |-> id, result |-> result,
     error |-> envelope]
Garbage ==
    [json |-> FALSE, members |-> <<"id", "result", "error">>, id |-> JAbsent,
     result |-> JScalarResult(JAbsent), error |-> JNoEnvelope]

\* The two layouts of a body: members in the usual order, and in reverse.
Forward == [body |-> <<"id", "result", "error">>, envelope |-> <<"code", "message">>]
Reverse == [body |-> <<"error", "result", "id">>, envelope |-> <<"message", "code">>]

(***************************************************************************)
(* Go values.  Every operation's result is a record with one field per Go  *)
(* type used: int64, string, bool, []string, map[string]interface{} (the   *)
(* entries "address" and "isvalid"; JAbsent: no such key), and the two     *)
(* strings of GetBalance.                                                  *)
(***************************************************************************)
ZeroValue ==
    [i |-> 0, s |-> "", b |-> FALSE, l |-> << >>,
     address |-> JAbsent, isvalid |-> JAbsent, balance |-> "", confirmed |-> ""]


(***************************************************************************)
(* encoding/json, as executeRequest uses it.  A member that is absent or   *)
(* null leaves the Go field at its zero value.  A member of another JSON   *)
(* type than the field's leaves the field at its zero value too, and is an *)
(* UnmarshalTypeError: decoding goes on with the members that follow, and  *)
(* the error returned at the end is the one of the first such member of    *)
(* the document.  A body that is not JSON is a SyntaxError and nothing is  *)
(* stored.                                                                 *)
(***************************************************************************)
SyntaxError == <<"invalid character looking for beginning of value">>
TypeError(jsonType, field) ==
    <<"json: cannot unmarshal ", jsonType, " into Go struct field ", field>>

\* Whether JSON value v fits a Go field that takes the JSON type `want`.
Fits(v, want) == v.t \in {"absent", "null", want}

\* The error of storing JSON value v in the field that takes `want`.
FieldError(v, want, field) ==
    IF Fits(v, want) THEN NoError ELSE TypeError(v.t, field)

\* The first error of a sequence of errors, NoError when there is none.
RECURSIVE FirstError(_)
FirstError(errs) ==
    IF errs = << >> THEN NoError
    ELSE IF Head(errs) # NoError THEN Head(errs)
    ELSE FirstError(Tail(errs))

\* The JSON type the Result field of a response model takes.
ResultType(model) ==
    CASE model = "Integer" -> "int"
      [] model = "String" -> "str"
      [] model = "StringArray" -> "arr"
      [] model = "StringMap" -> "obj"
      [] model = "Balance" -> "obj"

\* The Go string a JSON value leaves in a string field.
StringOf(v) == IF v.t = "str" THEN v.s ELSE ""

\* json.Unmarshal(bytes, &model) for the response models
\* {ID int; JSONRPC string; Result T}: the error and the decoded Result.
\* The "error" member has no field in these models and is skipped.  The
\* model "Balance" is the struct of GetBalance, whose Result is
\* {Balance string; Confirmed string}; a map takes members of any type.
Unmarshal(model, body) ==
    LET r == body.result
        inResult ==
            IF model = "Balance" /\ r.t = "obj"
            THEN FirstError(<<FieldError(r.balance, "str", "result.balance"),
                              FieldError(r.confirmed, "str", "result.confirmed")>>)
            ELSE NoError
        errorOf(member) ==
            CASE member = "id" -> FieldError(body.id, "int", "id")
              [] member = "result" ->
                    IF ~Fits(r, ResultType(model)) THEN TypeError(r.t, "result")
                    ELSE inResult
              [] OTHER -> NoError
        stored ==
            IF ~Fits(r, ResultType(model)) \/ r.t \in {"absent", "null"}
            THEN ZeroValue
            ELSE IF model = "Balance"
            THEN [ZeroValue EXCEPT !.balance = StringOf(r.balance),
                                   !.confirmed = StringOf(r.confirmed)]
            ELSE [ZeroValue EXCEPT !.i = r.i, !.s = r.s, !.l = r.l,
                                   !.address = r.address, !.isvalid = r.isvalid]
    IN  IF ~body.json THEN [err |-> SyntaxError, Result |-> ZeroValue]
        ELSE [err |-> FirstError([k \in 1 .. Len(body.members) |->
                                      errorOf(body.members[k])]),
              Result |-> stored]

\* json.Unmarshal(bytes, &errorResp) for resp.Error
\* {ID int; JSONRPC string; Error {Code int; Message string}}.
\* The "result" member has no field in resp.Error and is skipped.
UnmarshalError(body) ==
    LET e == body.error
        inEnvelope(member) ==
            CASE member = "code" -> FieldError(e.code, "int", "error.code")
              [] member = "message" -> FieldError(e.message, "str", "error.message")
              [] OTHER -> NoError
        errorOf(member) ==
            CASE member = "id" -> FieldError(body.id, "int", "id")
              [] member = "error" ->
                    IF ~Fits(e, "obj") THEN TypeError(e.t, "error")
                    ELSE FirstError([k \in 1 .. Len(e.members) |->
                                         inEnvelope(e.members[k])])
              [] OTHER -> NoError
        isObject == e.t = "obj"
    IN  IF ~body.json THEN [err |-> SyntaxError, Code |-> 0, Message |-> ""]
        ELSE [err |-> FirstError([k \in 1 .. Len(body.members) |->
                                      errorOf(body.members[k])]),
              Code |-> IF isObject /\ e.code.t = "int" THEN e.code.i ELSE 0,
              Message |-> IF isObject /\ e.message.t = "str" THEN e.message.s ELSE ""]

(***************************************************************************)
(* executeRequest.  The value is what the call leaves behind: the error it *)
(* returns, the Result decoded into the model, whether the request was     *)
(* handed to the transport (sent) and whether the body was read (read).    *)
(***************************************************************************)
StatusError(code) ==
    <<"non-200 status code returned from NEO node, got: '", ToString(code), "'">>

EnvelopeError(code, message) ==
    <<"error code: ", ToString(code), ", error message: ", message>>

BuildError == <<"request could not be built">>
DialError == <<"transport: request failed">>
ReadError == <<"transport: body could not be read">>

Outcome(err, result, sent, read) ==
    [err |-> err, Result |-> result, sent |-> sent, read |-> read]

\* executeRequest without the check of the status code.
executeRequestAnyStatus(method, bodyParameters, nodeURI, model, net) ==
    LET decoded == Unmarshal(model, net.body)
        errorResp == UnmarshalError(net.body)
    IN  IF ~net.build THEN Outcome(BuildError, ZeroValue, FALSE, FALSE)
        ELSE IF net.transport = "dial_fail"
        THEN Outcome(DialError, ZeroValue, TRUE, FALSE)
        ELSE IF net.transport = "read_fail"
        THEN Outcome(ReadError, ZeroValue, TRUE, TRUE)
        ELSE IF decoded.err # NoError
        THEN Outcome(decoded.err, decoded.Result, TRUE, TRUE)
        ELSE IF errorResp.err # NoError
        THEN Outcome(errorResp.err, decoded.Result, TRUE, TRUE)
        ELSE IF errorResp.Message # ""
        THEN Outcome(EnvelopeError(errorResp.Code, errorResp.Message),
                     decoded.Result, TRUE, TRUE)
        ELSE Outcome(NoError, decoded.Result, TRUE, TRUE)

\* executeRequest taking a non-zero code, not a non-empty message, for the
\* sign of an error response.
executeRequestByCode(method, bodyParameters, nodeURI, model, net) ==
    LET decoded == Unmarshal(model, net.body)
        errorResp == UnmarshalError(net.body)
    IN  IF ~net.build THEN Outcome(BuildError, ZeroValue, FALSE, FALSE)
        ELSE IF net.transport = "dial_fail"
        THEN Outcome(DialError, ZeroValue, TRUE, FALSE)
        ELSE IF net.status # 200
        THEN Outcome(StatusError(net.status), ZeroValue, TRUE, FALSE)
        ELSE IF net.transport = "read_fail"
        THEN Outcome(ReadError, ZeroValue, TRUE, TRUE)
        ELSE IF decoded.err # NoError
        THEN Outcome(decoded.err, decoded.Result, TRUE, TRUE)
        ELSE IF errorResp.err # NoError
        THEN Outcome(errorResp.err, decoded.Result, TRUE, TRUE)
        ELSE IF errorResp.Code # 0
        THEN Outcome(EnvelopeError(errorResp.Code, errorResp.Message),
                     decoded.Result, TRUE, TRUE)
        ELSE Outcome(NoError, decoded.Result, TRUE, TRUE)

executeRequest(method, bodyParameters, nodeURI, model, net) ==
    LET decoded == Unmarshal(model, net.body)
        errorResp == UnmarshalError(net.body)
    IN  IF ~net.build THEN Outcome(BuildError, ZeroValue, FALSE, FALSE)
        ELSE IF net.transport = "dial_fail"
        THEN Outcome(DialError, ZeroValue, TRUE, FALSE)
        ELSE IF net.status # 200
        THEN Outcome(StatusError(net.status), ZeroValue, TRUE, FALSE)
        ELSE IF net.transport = "read_fail"
        THEN Outcome(ReadError, ZeroValue, TRUE, TRUE)
        ELSE IF decoded.err # NoError
        THEN Outcome(decoded.err, decoded.Result, TRUE, TRUE)
        ELSE IF errorResp.err # NoError
        THEN Outcome(errorResp.err, decoded.Result, TRUE, TRUE)
        ELSE IF errorResp.Message # ""
        THEN Outcome(EnvelopeError(errorResp.Code, errorResp.Message),
                     decoded.Result, TRUE, TRUE)
        ELSE Outcome(NoError, decoded.Result, TRUE, TRUE)

(***************************************************************************)
(* The client operations.  c is the Client value [Node, nodeURIs]; the     *)
(* value of an operation is [val, err, sent, read]: the Go result (in the  *)
(* field of its type), the error, and the trace of the request.            *)
(***************************************************************************)
NewClient(nodeURI) == [Node |-> nodeURI, nodeURIs |-> <<nodeURI>>]

Return(val, r) == [val |-> val, err |-> r.err, sent |-> r.sent, read |-> r.read]

GetBestBlockHash(c, net) ==
    LET r == executeRequest("getbestblockhash", << >>, c.Node, "String", net) IN
    IF r.err # NoError THEN Return(ZeroValue, r)
    ELSE Return([ZeroValue EXCEPT !.s = r.Result.s], r)

GetBlockCount(c, net) ==
    LET r == executeRequest("getblockcount", << >>, c.Node, "Integer", net) IN
    IF r.err # NoError THEN Return(ZeroValue, r)
    ELSE Return([ZeroValue EXCEPT !.i = r.Result.i], r)

GetBlockHash(c, index, net) ==
    LET r == executeRequest("getblockhash", <<JInt(index)>>, c.Node, "String", net) IN
    IF r.err # NoError THEN Return(ZeroValue, r)
    ELSE Return([ZeroValue EXCEPT !.s = r.Result.s], r)

GetConnectionCount(c, net) ==
    LET r == executeRequest("getconnectioncount", << >>, c.Node, "Integer", net) IN
    IF r.err # NoError THEN Return(ZeroValue, r)
    ELSE Return([ZeroValue EXCEPT !.i = r.Result.i], r)

GetUnconfirmedTransactions(c, net) ==
    LET r == executeRequest("getrawmempool", << >>, c.Node, "StringArray", net) IN
    IF r.err # NoError THEN Return(ZeroValue, r)
    ELSE Return([ZeroValue EXCEPT !.l = r.Result.l], r)

GetNewAddress(c, net) ==
    LET r == executeRequest("getnewaddress", << >>, c.Node, "String", net) IN
    IF r.err # NoError THEN Return(ZeroValue, r)
    ELSE Return([ZeroValue EXCEPT !.s = r.Result.s], r)

GetBalance(c, assetID, net) ==
    LET r == executeRequest("getbalance", <<JStr(assetID)>>, c.Node, "Balance", net) IN
    IF r.err # NoError THEN Return(ZeroValue, r)
    ELSE Return([ZeroValue EXCEPT !.balance = r.Result.balance,
                                  !.confirmed = r.Result.confirmed], r)

\* ValidateAddress without the comparison of the returned address.
ValidateAddressAnyAddress(c, address, net) ==
    LET r == executeRequest("validateaddress", <<JStr(address)>>, c.Node,
                            "StringMap", net)
        result == r.Result
    IN  IF r.err # NoError THEN Return(ZeroValue, r)
        ELSE IF result.address.t = "absent" THEN Return(ZeroValue, r)
        ELSE IF result.address.t # "str" THEN Return(ZeroValue, r)
        ELSE IF result.isvalid.t = "absent" THEN Return(ZeroValue, r)
        ELSE IF result.isvalid.t # "bool" THEN Return(ZeroValue, r)
        ELSE IF result.isvalid.b
        THEN Return([ZeroValue EXCEPT !.b = TRUE], r)
        ELSE Return(ZeroValue, r)

ValidateAddress(c, address, net) ==
    LET r == executeRequest("validateaddress", <<JStr(address)>>, c.Node,
                            "StringMap", net)
        result == r.Result
    IN  IF r.err # NoError THEN Return(ZeroValue, r)
        ELSE IF result.address.t = "absent" THEN Return(ZeroValue, r)
        ELSE IF result.address.t # "str" THEN Return(ZeroValue, r)
        ELSE IF result.isvalid.t = "absent" THEN Return(ZeroValue, r)
        ELSE IF result.isvalid.t # "bool" THEN Return(ZeroValue, r)
        ELSE IF address = result.address.s /\ result.isvalid.b
        THEN Return([ZeroValue EXCEPT !.b = TRUE], r)
        ELSE Return(ZeroValue, r)


(***************************************************************************)
(* What the environment may do to one request.                             *)
(***************************************************************************)
Net(build, transport, status, body) ==
    [build |-> build, transport |-> transport, status |-> status, body |-> body]

Counts == 0 .. MaxCount
Statuses == {200, 404, 500}

Ids == {JInt(1), JStr("1")}

Scalars ==
    {JAbsent, JNull, JBool(TRUE)} \cup {JInt(n) : n \in Counts}
        \cup {JStr(a) : a \in Addresses}

Results ==
    {JScalarResult(v) : v \in Scalars}
        \cup {JArrayResult(l) : l \in {<< >>, <<"0x9f", "0x3a">>}}
        \cup {JObjectResult(a, v) :
                a \in {JAbsent, JInt(1)} \cup {JStr(x) : x \in Addresses},
                v \in {JAbsent, JBool(TRUE), JBool(FALSE), JStr("true")}}
        \cup {JBalanceResult(b, c) :
                b \in {JAbsent, JStr("100"), JInt(MaxCount)},
                c \in {JAbsent, JStr("99.5")}}

Envelopes ==
    {JNoEnvelope, JStringEnvelope}
        \cup {JEnvelope(Forward.envelope, c, m) :
                c \in {JInt(0), JInt(-100), JStr("-100")},
                m \in {JAbsent, JStr(""), JStr("Unknown block"), JInt(1)}}

\* The same document with its members, and those of its envelope, written
\* in the order of the layout.
Laid(layout, body) ==
    [body EXCEPT !.members = layout.body, !.error.members = layout.envelope]

Bodies ==
    {Garbage}
        \cup {Laid(layout, JBody(Forward.body, id, r, e)) :
                layout \in {Forward, Reverse}, id \in Ids, r \in Results,
                e \in Envelopes}

BuildFailure == Net(FALSE, "dial_fail", 0, Garbage)
DialFailure == Net(TRUE, "dial_fail", 0, Garbage)

\* Every outcome of one request.
Nets ==
    {BuildFailure, DialFailure}
        \cup {Net(TRUE, t, st, b) : t \in {"ok", "read_fail"}, st \in Statuses, b \in Bodies}

\* The body of a node that reports block count n.
CountBody(n) == JBody(Forward.body, JInt(1), JScalarResult(JInt(n)), JNoEnvelope)

\* The outcomes of one getblockcount request the scan of SelectBestNode is
\* run against: every way to fail, and every count.
ScanNets ==
    {BuildFailure, DialFailure, Net(TRUE, "read_fail", 200, CountBody(MaxCount)),
     Net(TRUE, "ok", 500, CountBody(MaxCount)), Net(TRUE, "ok", 200, Garbage),
     Net(TRUE, "ok", 200,
         JBody(Forward.body, JInt(1), JScalarResult(JStr("0x9f")), JNoEnvelope)),
     Net(TRUE, "ok", 200,
         JBody(Forward.body, JInt(1), JScalarResult(JInt(MaxCount)),
               JEnvelope(Forward.envelope, JInt(-100), JStr("Unknown block")))),
     Net(TRUE, "ok", 200,
         JBody(Forward.body, JInt(1), JScalarResult(JAbsent), JNoEnvelope))}
        \cup {Net(TRUE, "ok", 200, CountBody(n)) : n \in Counts}

\* Lists of node URIs, of every length up to MaxNodes (the empty one too).
RECURSIVE Lists(_)
Lists(n) ==
    IF n = 0 THEN {<< >>}
    ELSE LET shorter == Lists(n - 1) IN
         shorter \cup {Append(l, u) : l \in {x \in shorter : Len(x) = n - 1}, u \in URIs}

(***************************************************************************)
(* State.                                                                  *)
(*   ctor          the constructor call: which one, its argument, what it  *)
(*                 returned ("none", "pending", "client", "nil") and its   *)
(*                 error                                                   *)
(*   Node, nodeURIs   the fields of the Client                             *)
(*   pc            "start" (nothing constructed), "idle", "scan" (in the   *)
(*                 loop of SelectBestNode, no request outstanding),        *)
(*                 "wait" (inside GetBlockCount of the loop)               *)
(*   bestNode, highestBlock, idx   the locals of SelectBestNode; idx is    *)
(*                 the position of the range loop                          *)
(*   issued        the positions GetBlockCount was called for, in order,   *)
(*                 during the current SelectBestNode call                  *)
(*   answers       what each of these calls returned, in order             *)
(*   before        Node and nodeURIs when SelectBestNode was entered       *)
(*   ret           what the last SelectBestNode call returned              *)
(*   calls         SelectBestNode calls made by the user                   *)
(*   last          the last one-request operation: its name, address       *)
(*                 argument, the outcome of its request, what it returned  *)
(***************************************************************************)
VARIABLES ctor, Node, nodeURIs, pc, bestNode, highestBlock, idx,
          issued, answers, before, ret, calls, last

vars == <<ctor, Node, nodeURIs, pc, bestNode, highestBlock, idx,
          issued, answers, before, ret, calls, last>>

scanVars == <<bestNode, highestBlock, idx, issued, answers, before, ret, calls>>

Client == [Node |-> Node, nodeURIs |-> nodeURIs]

NoReturn == [val |-> ZeroValue, err |-> NoError, sent |-> FALSE, read |-> FALSE]

Init ==
    /\ ctor = [kind |-> "none", arg |-> << >>, ret |-> "none", err |-> NoError]
    /\ Node = ""
    /\ nodeURIs = << >>
    /\ pc = "start"
    /\ bestNode = ""
    /\ highestBlock = 0
    /\ idx = 1
    /\ issued = << >>
    /\ answers = << >>
    /\ before = [Node |-> "", nodeURIs |-> << >>]
    /\ ret = [state |-> "none", err |-> NoError]
    /\ calls = 0
    /\ last = [op |-> "none", address |-> "", net |-> BuildFailure, ret |-> NoReturn]

(***************************************************************************)
(* SelectBestNode.                                                         *)
(***************************************************************************)
\* The single-node case not told apart.
SingleNodeSkipped(uris) == FALSE

\* if len(c.nodeURIs) == 1
SingleNode(uris) == Len(uris) = 1

\* if blockCount > highestBlock
Better(blockCount, highest) == blockCount > highest

\* The check of bestNode left out: Node is assigned whatever the scan found.
NoneChosenSkipped(best) == FALSE

\* if bestNode == ""
NoneChosen(best) == best = ""

CommunicationError == <<"Unable to communicate with any nodes">>

\* The constructor returns the client once SelectBestNode has returned,
\* whatever SelectBestNode returned.
CtorReturns ==
    ctor' = IF ctor.ret = "pending" THEN [ctor EXCEPT !.ret = "client"] ELSE ctor

\* SelectBestNode is entered on the client [Node |-> node, nodeURIs |-> uris],
\* the constructor call being c: the single-node case returns at once, the
\* other initialises the locals and enters the loop.
Enter(uris, node, c) ==
    /\ nodeURIs' = uris
    /\ before' = [Node |-> node, nodeURIs |-> uris]
    /\ issued' = << >>
    /\ answers' = << >>
    /\ IF SingleNode(uris)
       THEN /\ Node' = uris[1]
            /\ ret' = [state |-> "returned", err |-> NoError]
            /\ pc' = "idle"
            /\ ctor' = IF c.ret = "pending" THEN [c EXCEPT !.ret = "client"] ELSE c
            /\ UNCHANGED <<bestNode, highestBlock, idx>>
       ELSE /\ Node' = node
            /\ ret' = [state |-> "running", err |-> NoError]
            /\ bestNode' = ""
            /\ highestBlock' = 0
            /\ idx' = 1
            /\ pc' = "scan"
            /\ ctor' = c


\* A loop that stays on a URI whose call failed.
AdvanceRetry(i, failed) == IF failed THEN i ELSE i + 1

\* The range loop moves to the next URI after a failed call (continue) and
\* after a call that answered.
Advance(i, failed) == i + 1

\* The check of the length left out.
EmptyListSkipped(uris) == FALSE

\* if len(nodeURIs) == 0
EmptyList(uris) == Len(uris) = 0

LengthError == <<"Length of 'nodeURIs' argument must be greater than 0">>

(***************************************************************************)
(* Constructors.                                                           *)
(***************************************************************************)
NewClientCall ==
    /\ pc = "start"
    /\ \E nodeURI \in URIs :
         LET c == NewClient(nodeURI) IN
         /\ Node' = c.Node
         /\ nodeURIs' = c.nodeURIs
         /\ ctor' = [kind |-> "NewClient", arg |-> <<nodeURI>>, ret |-> "client",
                     err |-> NoError]
    /\ pc' = "idle"
    /\ UNCHANGED <<scanVars, last>>

\* NewClientUsingMultipleNodes up to the point where it is inside
\* client.SelectBestNode(): it has returned (nil, error) for the empty
\* list, has returned the client for a single URI, and is in the loop of
\* SelectBestNode otherwise.
NewClientUsingMultipleNodes ==
    /\ pc = "start"
    /\ \E uris \in Lists(MaxNodes) :
         IF EmptyList(uris)
         THEN /\ ctor' = [kind |-> "NewClientUsingMultipleNodes", arg |-> uris,
                          ret |-> "nil", err |-> LengthError]
              /\ pc' = "idle"
              /\ UNCHANGED <<Node, nodeURIs, scanVars>>
         ELSE /\ Enter(uris, "",
                       [kind |-> "NewClientUsingMultipleNodes", arg |-> uris,
                        ret |-> "pending", err |-> NoError])
              /\ UNCHANGED calls
    /\ UNCHANGED last

\* The user calls SelectBestNode on the constructed client.
SelectBestNode ==
    /\ pc = "idle"
    /\ ctor.ret = "client"
    /\ calls < MaxCalls
    /\ calls' = calls + 1
    /\ Enter(nodeURIs, Node, ctor)
    /\ UNCHANGED last

\* The loop reaches the next URI: tempClient := NewClient(nodeURI) and
\* tempClient.GetBlockCount() is called.
QueryNode ==
    /\ pc = "scan"
    /\ idx <= Len(nodeURIs)
    /\ issued' = Append(issued, idx)
    /\ pc' = "wait"
    /\ UNCHANGED <<ctor, Node, nodeURIs, bestNode, highestBlock, idx, answers,
                   before, ret, calls, last>>

\* GetBlockCount returns, and the loop body runs to its end.
NodeAnswers ==
    /\ pc = "wait"
    /\ \E net \in ScanNets :
         LET nodeURI == nodeURIs[idx]
             tempClient == NewClient(nodeURI)
             r == GetBlockCount(tempClient, net)
             blockCount == r.val.i
             failed == r.err # NoError
         IN  /\ answers' = Append(answers, [failed |-> failed, blockCount |-> blockCount,
                                            sent |-> r.sent])
             /\ IF ~failed /\ Better(blockCount, highestBlock)
                THEN highestBlock' = blockCount /\ bestNode' = nodeURI
                ELSE UNCHANGED <<highestBlock, bestNode>>
             /\ idx' = Advance(idx, failed)
    /\ pc' = "scan"
    /\ UNCHANGED <<ctor, Node, nodeURIs, issued, before, ret, calls, last>>

\* The loop is over: SelectBestNode returns.
SelectBestNodeReturn ==
    /\ pc = "scan"
    /\ idx > Len(nodeURIs)
    /\ IF NoneChosen(bestNode)
       THEN /\ ret' = [state |-> "returned", err |-> CommunicationError]
            /\ UNCHANGED Node
       ELSE /\ Node' = bestNode
            /\ ret' = [state |-> "returned", err |-> NoError]
    /\ pc' = "idle"
    /\ CtorReturns
    /\ UNCHANGED <<nodeURIs, bestNode, highestBlock, idx, issued, answers, before,
                   calls, last>>

Next ==
    \/ NewClientCall
    \/ NewClientUsingMultipleNodes
    \/ SelectBestNode
    \/ QueryNode
    \/ NodeAnswers
    \/ SelectBestNodeReturn

Spec == Init /\ [][Next]_vars

(***************************************************************************)
(* The one-request operations, each called once on a client made by        *)
(* NewClient: an operation reads c.Node and nothing else of the program's  *)
(* state, and changes none of it.                                          *)
(***************************************************************************)
Ready == pc = "idle" /\ ctor.ret = "client" /\ last.op = "none"

Called(op, address, net, r) ==
    /\ last' = [op |-> op, address |-> address, net |-> net, ret |-> r]
    /\ UNCHANGED <<ctor, Node, nodeURIs, pc, scanVars>>

GetBestBlockHashCall ==
    Ready /\ \E net \in Nets : Called("GetBestBlockHash", "", net, GetBestBlockHash(Client, net))

GetBlockCountCall ==
    Ready /\ \E net \in Nets : Called("GetBlockCount", "", net, GetBlockCount(Client, net))

GetBlockHashCall ==
    Ready /\ \E net \in Nets :
               \E index \in Counts :
                 Called("GetBlockHash", "", net, GetBlockHash(Client, index, net))

GetConnectionCountCall ==
    Ready /\ \E net \in Nets :
               Called("GetConnectionCount", "", net, GetConnectionCount(Client, net))

GetUnconfirmedTransactionsCall ==
    Ready /\ \E net \in Nets :
               Called("GetUnconfirmedTransactions", "", net,
                      GetUnconfirmedTransactions(Client, net))

GetNewAddressCall ==
    Ready /\ \E net \in Nets : Called("GetNewAddress", "", net, GetNewAddress(Client, net))

GetBalanceCall ==
    Ready /\ \E net \in Nets, assetID \in AssetIDs :
               Called("GetBalance", "", net, GetBalance(Client, assetID, net))

ValidateAddressCall ==
    Ready /\ \E net \in Nets, address \in Addresses :
               Called("ValidateAddress", address, net, ValidateAddress(Client, address, net))

NextRPC ==
    \/ NewClientCall
    \/ GetBestBlockHashCall
    \/ GetBlockCountCall
    \/ GetBlockHashCall
    \/ GetConnectionCountCall
    \/ GetUnconfirmedTransactionsCall
    \/ GetNewAddressCall
    \/ GetBalanceCall
    \/ ValidateAddressCall

SpecRPC == Init /\ [][NextRPC]_vars


(***************************************************************************)
(* Properties.                                                             *)
(***************************************************************************)
\* The text of error err contains the piece.
Contains(err, piece) == \E k \in 1 .. Len(err) : err[k] = piece

\* SelectBestNode has returned on a client that holds two or more URIs.
ScanReturned == ret.state = "returned" /\ Len(nodeURIs) >= 2

\* The positions whose GetBlockCount call answered without error.
Answered == {k \in 1 .. Len(answers) : ~answers[k].failed}

\* The response model each operation declares.
ModelOf(op) ==
    CASE op \in {"GetBlockCount", "GetConnectionCount"} -> "Integer"
      [] op \in {"GetBestBlockHash", "GetBlockHash", "GetNewAddress"} -> "String"
      [] op = "GetUnconfirmedTransactions" -> "StringArray"
      [] op = "ValidateAddress" -> "StringMap"
      [] op = "GetBalance" -> "Balance"

\* The body is JSON that both the operation's model and the error envelope
\* take: id an integer, result of the model's type, error an object with an
\* integer code and a string message (each of them possibly absent or null).
Deserializes(op, body) ==
    /\ body.json
    /\ body.id.t \in {"absent", "null", "int"}
    /\ body.result.t \in {"absent", "null", ResultType(ModelOf(op))}
    /\ body.error.t \in {"absent", "null", "obj"}
    /\ body.error.code.t \in {"absent", "null", "int"}
    /\ body.error.message.t \in {"absent", "null", "str"}
    /\ ModelOf(op) = "Balance" =>
           /\ body.result.balance.t \in {"absent", "null", "str"}
           /\ body.result.confirmed.t \in {"absent", "null", "str"}

\* The request of the last operation went through: built, transported,
\* answered 200 with a body that deserializes and whose envelope has an
\* empty error message.
Succeeded ==
    /\ last.net.build
    /\ last.net.transport = "ok"
    /\ last.net.status = 200
    /\ Deserializes(last.op, last.net.body)
    /\ last.net.body.error.message.s = ""

\* C1: once SelectBestNode has returned on a client with two or more URIs of
\* which at least one answered GetBlockCount without error, Node is a URI of
\* the list that answered, and no node that answered reported a strictly
\* higher block count.
C1_HighestAnsweringNodeChosen ==
    (ScanReturned /\ Answered # {}) =>
        \E i \in Answered :
            /\ i <= Len(nodeURIs)
            /\ nodeURIs[i] = Node
            /\ \A j \in Answered : answers[j].blockCount <= answers[i].blockCount

\* C2: an operation whose request was built and transported and whose
\* response has a status other than 200 returns an error that names the
\* status code, with its zero result and without the body having been read,
\* whatever the body is.
C2_Non200IsAnError ==
    (last.op # "none" /\ last.net.build /\ last.net.transport # "dial_fail"
        /\ last.net.status # 200) =>
        /\ last.ret.err # NoError
        /\ Contains(last.ret.err, ToString(last.net.status))
        /\ ~last.ret.read
        /\ last.ret.val = ZeroValue

C2_Witness ==
    /\ last.op = "GetBlockCount"
    /\ last.net.transport = "ok"
    /\ last.net.status = 404
    /\ last.net.body = CountBody(MaxCount)
    /\ Contains(last.ret.err, "404")

\* C3: an operation whose response has status 200 and a JSON body with an
\* error envelope (integer code, non-empty message) returns an error whose
\* text contains the code and the message, and its zero result.
C3_EnvelopeErrorReported ==
    (last.op # "none" /\ last.net.build /\ last.net.transport = "ok"
        /\ last.net.status = 200 /\ last.net.body.json
        /\ last.net.body.error.t = "obj"
        /\ last.net.body.error.code.t = "int"
        /\ last.net.body.error.message.t = "str"
        /\ last.net.body.error.message.s # "") =>
        /\ last.ret.err # NoError
        /\ Contains(last.ret.err, ToString(last.net.body.error.code.i))
        /\ Contains(last.ret.err, last.net.body.error.message.s)
        /\ last.ret.val = ZeroValue

\* What does hold in the case of C3: when the body of such a response also
\* deserializes into the operation's model and the envelope, the error
\* contains the code and the message and the operation returns its zero value.
EnvelopeErrorWhenDeserialized ==
    (last.op # "none" /\ last.net.build
        /\ last.net.transport = "ok" /\ last.net.status = 200
        /\ Deserializes(last.op, last.net.body)
        /\ last.net.body.error.message.s # "") =>
        /\ Contains(last.ret.err, ToString(last.net.body.error.code.i))
        /\ Contains(last.ret.err, last.net.body.error.message.s)
        /\ last.ret.val = ZeroValue

\* The result map of the last response says the address asked about is valid.
SaysValid ==
    /\ last.net.body.result.t = "obj"
    /\ last.net.body.result.address = JStr(last.address)
    /\ last.net.body.result.isvalid = JBool(TRUE)

\* The result member of the last response, as the Go value of the type the
\* operation's model declares for it.
ResultMember ==
    LET r == last.net.body.result IN
    IF r.t \in {"absent", "null"} THEN ZeroValue
    ELSE IF ModelOf(last.op) = "Balance"
    THEN [ZeroValue EXCEPT !.balance = r.balance.s, !.confirmed = r.confirmed.s]
    ELSE [ZeroValue EXCEPT !.i = r.i, !.s = r.s, !.l = r.l,
                           !.address = r.address, !.isvalid = r.isvalid]

\* C4 as claimed: an operation returns the nil error exactly when its
\* request was built, transported, answered 200 with a body that
\* deserializes and whose envelope has an empty message, and the value every
\* operation then returns is the result member of the response.
C4_EveryOperationReturnsResult ==
    last.op # "none" =>
        /\ (last.ret.err = NoError) <=> Succeeded
        /\ Succeeded => last.ret.val = ResultMember

\* C4, amended: an operation returns the nil error exactly when its request
\* was built, transported, answered 200 with a body that deserializes and
\* whose envelope has an empty message (whatever the code).  The value
\* returned is then the result member of the response for the operations
\* that return resp.Result (integer, string and string-array results); it is
\* the two strings "balance" and "confirmed" of the result for GetBalance,
\* and for ValidateAddress the boolean that says whether the result map
\* holds the address asked about with "isvalid" true, not the map.
C4_NilErrorExactlyOnSuccess ==
    last.op # "none" =>
        /\ (last.ret.err = NoError) <=> Succeeded
        /\ (Succeeded /\ ModelOf(last.op) = "Integer") =>
               last.ret.val = [ZeroValue EXCEPT !.i = last.net.body.result.i]
        /\ (Succeeded /\ ModelOf(last.op) = "String") =>
               last.ret.val = [ZeroValue EXCEPT !.s = last.net.body.result.s]
        /\ (Succeeded /\ ModelOf(last.op) = "StringArray") =>
               last.ret.val = [ZeroValue EXCEPT !.l = last.net.body.result.l]
        /\ (Succeeded /\ ModelOf(last.op) = "Balance") =>
               last.ret.val = [ZeroValue EXCEPT
                                   !.balance = last.net.body.result.balance.s,
                                   !.confirmed = last.net.body.result.confirmed.s]
        /\ (Succeeded /\ ModelOf(last.op) = "StringMap") =>
               last.ret.val = [ZeroValue EXCEPT !.b = SaysValid]

C4_Witness ==
    /\ last.op = "GetBlockCount"
    /\ last.ret.err = NoError
    /\ last.net.body.error.code = JInt(-100)
    /\ last.net.body.error.message = JStr("")
    /\ last.ret.val.i = MaxCount

\* C5: a SelectBestNode call queries the URIs one at a time in list order:
\* never more than one GetBlockCount call is outstanding, the k-th call is
\* for the k-th URI (so none is retried and none is made before the one
\* ahead of it has returned), and when SelectBestNode returns on two or more
\* URIs every URI has been queried exactly once.
C5_SequentialScan ==
    /\ Len(issued) - Len(answers) = (IF pc = "wait" THEN 1 ELSE 0)
    /\ \A k \in 1 .. Len(issued) : issued[k] = k
    /\ Len(issued) <= Len(nodeURIs)
    /\ ScanReturned => (Len(issued) = Len(nodeURIs) /\ Len(answers) = Len(nodeURIs))

C5_Witness ==
    /\ ScanReturned
    /\ Len(nodeURIs) = MaxNodes
    /\ answers[1].failed
    /\ ~answers[2].failed
    /\ issued = <<1, 2>> \o [k \in 1 .. MaxNodes - 2 |-> k + 2]

\* C6: once SelectBestNode has returned on a client that holds exactly one
\* URI, Node is that URI, the error is nil and no GetBlockCount call was made.
C6_SingleNodeUsedUnqueried ==
    (ret.state = "returned" /\ Len(nodeURIs) = 1) =>
        /\ Node = nodeURIs[1]
        /\ ret.err = NoError
        /\ issued = << >>
        /\ answers = << >>

C6_Witness ==
    /\ ret.state = "returned"
    /\ Len(nodeURIs) = 1
    /\ before.Node = ""
    /\ Node = nodeURIs[1]

\* C7: NewClientUsingMultipleNodes given the empty list has returned a nil
\* client and a non-nil error, has made no GetBlockCount call and has not
\* entered SelectBestNode.
C7_EmptyListRejected ==
    (ctor.kind = "NewClientUsingMultipleNodes" /\ ctor.arg = << >>) =>
        /\ ctor.ret = "nil"
        /\ ctor.err # NoError
        /\ issued = << >>
        /\ ret.state = "none"
        /\ pc = "idle"

C7_Witness ==
    /\ ctor.kind = "NewClientUsingMultipleNodes"
    /\ ctor.arg = << >>
    /\ ctor.ret = "nil"
    /\ ctor.err = LengthError

\* C8: ValidateAddress returns (true, nil) exactly when the request
\* succeeded and the result map holds the address asked about as a string
\* under "address" and the boolean true under "isvalid"; it returns
\* (false, nil) on every other successful response and (false, err) when
\* the request failed.
C8_ValidateAddress ==
    last.op = "ValidateAddress" =>
        /\ (last.ret.val.b /\ last.ret.err = NoError) <=> (Succeeded /\ SaysValid)
        /\ (Succeeded /\ ~SaysValid) => (~last.ret.val.b /\ last.ret.err = NoError)
        /\ ~Succeeded => (~last.ret.val.b /\ last.ret.err # NoError)

C8_Witness ==
    /\ last.op = "ValidateAddress"
    /\ last.ret.val.b
    /\ last.ret.err = NoError
    /\ SaysValid

\* C9: once SelectBestNode has returned on a client with two or more URIs
\* and every GetBlockCount call of the scan failed, the error is "Unable to
\* communicate with any nodes" and Node and the URI list are what they were
\* when it was entered.
C9_AllFailedLeavesClientAlone ==
    (ScanReturned /\ Answered = {}) =>
        /\ ret.err = CommunicationError
        /\ Node = before.Node
        /\ nodeURIs = before.nodeURIs

C9_Witness ==
    /\ ScanReturned
    /\ Answered = {}
    /\ before.Node # ""
    /\ Node = before.Node
    /\ ret.err = CommunicationError

====
